---- MODULE Spec2Model ----
(***************************************************************************)
(* kelvin: a sensor status-line generator (src/src/main.rs, config.rs).    *)
(*                                                                         *)
(* Three specifications over one set of variables:                         *)
(*   SpecMap  SensorMap::map, Sensor::get_value and Sensor::format_value   *)
(*            applied to bounded inputs (pure functions of config.rs)      *)
(*   SpecCpu  CPUUsageWidget driven by arbitrary refresh()/get() calls     *)
(*   Spec     main(): widget construction, update_format, the poll loop    *)
(*                                                                         *)
(* Strings are sequences of one-character strings, so that contains,       *)
(* replace, split and parse are computed, not assumed.  f32/f64 values are *)
(* exact rationals n/d plus the IEEE specials inf, -inf and NaN; rounding  *)
(* of the binary formats is not modelled.                                  *)
(***************************************************************************)
EXTENDS Integers, Sequences, FiniteSets, TLC

VARIABLES
    \* ---- main(): the program
    pc,             \* where main is: start, once, loop, sleep_rest, update, sleep_min,
                    \* reset, and its ends exit_ok, exit_err, panic
    args,           \* cli::Cli as main reads it: [once, no_format, kill, daemon]
    config,         \* Config: [format, poll_rate, sensors]
    sensors_data,   \* ctx.sensors_data: the snapshot get_temps() returned
    widgets,        \* HashMap<String, Box<dyn Widget>>: a function from "{name}"
    format,         \* the String update_format writes into
    cpu,            \* CPUUsageWidget: [last_idle, last_sum, cpu_count];
                    \* cpu_count 0 is the empty OnceCell
    \* ---- what the program did (history, not read by the program)
    err,            \* why main ended: the error or the panic message
    tick,           \* iterations of the loop begun
    frames,         \* number of frames printed
    lastFrame,      \* the text of the last println!
    slept,          \* milliseconds slept since the last frame
    tickLog,        \* the last update_format: [calls, values]
    resolved,       \* names of the sensors whose get_value was ever called
    cpuLog,         \* the tracker's operations, in order
    fetches,        \* number of snapshots get_temps() has returned
    \* ---- harness of the pure functions and of the tracker
    hCall,          \* the call last made: [op, ...its arguments]
    hRet,           \* what it returned
    hPrev,          \* the counters read by the last successful tracker call before it
    \* ---- environment
    kernel          \* the aggregate counters of /proc/stat as last read

mainVars == <<pc, args, config, sensors_data, widgets, format, err, tick, frames,
              lastFrame, slept, tickLog, resolved, cpuLog, fetches>>

harnessVars == <<hCall, hRet, hPrev>>

vars == <<mainVars, harnessVars, cpu, kernel>>

----------------------------------------------------------------------------
(* Bounds *)

MapMax == 3
\* the kernel's counters: their sum stays within MaxTotal, and between two reads
\* each of user, idle and iowait grows by at most MaxStep
MaxTotal == 6
MaxStep == 2
\* nproc prints 1..MaxCores
MaxCores == 2
\* iterations of main's loop
MaxTicks == 2
\* the bounds of the range-map inputs: in_min, in_max, out_min, out_max, value
MapValues == (0 - 1) .. MapMax

----------------------------------------------------------------------------
(* Characters and strings *)

Digits == <<"0", "1", "2", "3", "4", "5", "6", "7", "8", "9">>

IsDigit(c) == \E i \in 1..10 : Digits[i] = c

DigitVal(c) == (CHOOSE i \in 1..10 : Digits[i] = c) - 1

RECURSIVE NatToStr(_)
NatToStr(n) == IF n < 10 THEN <<Digits[n + 1]>>
               ELSE NatToStr(n \div 10) \o <<Digits[(n % 10) + 1]>>

RECURSIVE StrToNat(_)
StrToNat(s) == IF s = <<>> THEN 0
               ELSE 10 * StrToNat(SubSeq(s, 1, Len(s) - 1)) + DigitVal(s[Len(s)])

AllDigits(s) == s # <<>> /\ \A i \in 1..Len(s) : IsDigit(s[i])

\* str::contains(pat)
Contains(s, pat) ==
    \E i \in 1..(Len(s) - Len(pat) + 1) : SubSeq(s, i, i + Len(pat) - 1) = pat

\* str::replace(from, to): every non-overlapping match, left to right
RECURSIVE Replace(_, _, _)
Replace(s, from, to) ==
    IF from = <<>> \/ Len(s) < Len(from) THEN s
    ELSE IF SubSeq(s, 1, Len(from)) = from
         THEN to \o Replace(SubSeq(s, Len(from) + 1, Len(s)), from, to)
         ELSE <<s[1]>> \o Replace(SubSeq(s, 2, Len(s)), from, to)

----------------------------------------------------------------------------
(* f32 / f64 values: [k, n, d] with k in fin, nzero (-0.0), inf, ninf, nan *)

RECURSIVE Gcd(_, _)
Gcd(a, b) == IF b = 0 THEN a ELSE Gcd(b, a % b)

Abs(x) == IF x < 0 THEN 0 - x ELSE x

\* the rational n/d in lowest terms, d > 0
Rat(n, d) ==
    LET g == Gcd(Abs(n), Abs(d))
        s == IF d < 0 THEN 0 - 1 ELSE 1
    IN [k |-> "fin", n |-> (s * n) \div g, d |-> (s * d) \div g]

FInt(i) == [k |-> "fin", n |-> i, d |-> 1]
FInf    == [k |-> "inf", n |-> 0, d |-> 1]
FNegInf == [k |-> "ninf", n |-> 0, d |-> 1]
FNaN    == [k |-> "nan", n |-> 0, d |-> 1]
\* -0.0: zero in every comparison and sum, printed with its sign
FNegZero == [k |-> "nzero", n |-> 0, d |-> 1]

IsFin(a) == a.k \in {"fin", "nzero"}

\* a < b as IEEE compares: false whenever one side is NaN
FLt(a, b) ==
    CASE a.k = "nan" \/ b.k = "nan" -> FALSE
      [] a.k = "ninf" -> b.k # "ninf"
      [] a.k = "inf" -> FALSE
      [] b.k = "inf" -> TRUE
      [] b.k = "ninf" -> FALSE
      [] OTHER -> a.n * b.d < b.n * a.d

FLe(a, b) == a.k # "nan" /\ b.k # "nan" /\ ~FLt(b, a)

\* the operands of these three are finite wherever the model applies them
FSub(a, b) == Rat(a.n * b.d - b.n * a.d, a.d * b.d)
FMul(a, b) == Rat(a.n * b.n, a.d * b.d)

\* a + b, with a possibly inf, -inf or NaN and b finite
FAdd(a, b) == IF IsFin(a) THEN Rat(a.n * b.d + b.n * a.d, a.d * b.d) ELSE a

\* a / b of finite a, b: x/0 is inf or -inf by the sign of x, 0/0 is NaN
FDiv(a, b) ==
    IF b.n # 0 THEN Rat(a.n * b.d, a.d * b.n)
    ELSE IF a.n > 0 THEN FInf ELSE IF a.n < 0 THEN FNegInf ELSE FNaN

\* f32::clamp / f64::clamp: panics unless min <= max; NaN stays NaN
Clamp(x, min, max) ==
    IF ~FLe(min, max) THEN [panic |-> TRUE, val |-> FNaN]
    ELSE [panic |-> FALSE,
          val |-> IF FLt(x, min) THEN min ELSE IF FLt(max, x) THEN max ELSE x]

----------------------------------------------------------------------------
(* config.rs: SensorMap *)

\* a SensorMap is [input |-> <<in_min, in_max>>, output |-> <<out_min, out_max>>]
SensorMap_map(self, value) ==
    Clamp(FAdd(FDiv(FMul(FSub(value, self.input[1]),
                         FSub(self.output[2], self.output[1])),
                    FSub(self.input[2], self.input[1])),
               self.input[1]),
          self.output[1], self.output[2])

MkMap(i0, i1, o0, o1) ==
    [input |-> <<FInt(i0), FInt(i1)>>, output |-> <<FInt(o0), FInt(o1)>>]

\* tests::test_value_map holds of SensorMap_map
TestValueMap ==
    LET map == MkMap(0, 1024, 0, 255)
    IN /\ SensorMap_map(map, FInt(512)) = [panic |-> FALSE, val |-> Rat(255, 2)]
       /\ SensorMap_map(map, FInt(0)) = [panic |-> FALSE, val |-> FInt(0)]
       /\ SensorMap_map(map, FInt(1024)) = [panic |-> FALSE, val |-> FInt(255)]
       /\ SensorMap_map(map, FInt(0 - 512)) = [panic |-> FALSE, val |-> FInt(0)]
       /\ SensorMap_map(map, FInt(2000)) = [panic |-> FALSE, val |-> FInt(255)]

----------------------------------------------------------------------------
(* Option<T>, Result<T>, paths and the JSON snapshot *)

None == [some |-> FALSE]
Some(x) == [some |-> TRUE, v |-> x]

Ok(x) == [kind |-> "ok", val |-> x]
Err(e) == [kind |-> "err", err |-> e]
Panic(why) == [kind |-> "panic", why |-> why]

\* an empty HashMap, and map.insert(key, value)
EmptyMap == [k \in {} |-> 0]

Insert(map, key, value) ==
    [k \in DOMAIN map \cup {key} |-> IF k = key THEN value ELSE map[k]]

NoLog == [calls |-> <<>>, values |-> EmptyMap]

IsSpace(c) == c = " " \/ c = "\n"

\* str::trim
RECURSIVE TrimStart(_)
TrimStart(s) == IF s # <<>> /\ IsSpace(s[1]) THEN TrimStart(Tail(s)) ELSE s

RECURSIVE TrimEnd(_)
TrimEnd(s) == IF s # <<>> /\ IsSpace(s[Len(s)])
              THEN TrimEnd(SubSeq(s, 1, Len(s) - 1)) ELSE s

Trim(s) == TrimEnd(TrimStart(s))

RECURSIVE Pow10(_)
Pow10(k) == IF k = 0 THEN 1 ELSE 10 * Pow10(k - 1)

\* the index of the first c in s, 0 when there is none
RECURSIVE IndexFrom(_, _, _)
IndexFrom(s, c, i) == IF i > Len(s) THEN 0
                      ELSE IF s[i] = c THEN i ELSE IndexFrom(s, c, i + 1)

IndexOf(s, c) == IndexFrom(s, c, 1)

\* str::parse::<f32>() on the texts the model reads: an optional '-', digits, and
\* an optional '.' followed by digits, or inf, -inf, NaN as f32 prints them; any
\* other text is an error
ParseF32(s) ==
    LET neg == s # <<>> /\ s[1] = "-"
        body == IF neg THEN Tail(s) ELSE s
        dot == IndexOf(body, ".")
        ip == IF dot = 0 THEN body ELSE SubSeq(body, 1, dot - 1)
        fp == IF dot = 0 THEN <<>> ELSE SubSeq(body, dot + 1, Len(body))
        mag == Rat(StrToNat(ip) * Pow10(Len(fp)) + StrToNat(fp), Pow10(Len(fp)))
    IN IF body = <<"i", "n", "f">> THEN Ok(IF neg THEN FNegInf ELSE FInf)
       ELSE IF s = <<"N", "a", "N">> THEN Ok(FNaN)
       ELSE IF AllDigits(ip) /\ (dot = 0 \/ AllDigits(fp))
       THEN Ok(IF ~neg THEN mag ELSE IF mag.n = 0 THEN FNegZero ELSE FSub(FInt(0), mag))
       ELSE Err("parse")

\* A JSON value is [t |-> "obj", kv |-> [keys -> values]], [t |-> "num", text |-> s]
\* (s the number as serde_json prints it), [t |-> "str", text |-> s] or [t |-> "null"].
JNum(s) == [t |-> "num", text |-> s]
JStr(s) == [t |-> "str", text |-> s]
JNull == [t |-> "null"]
JObj(f) == [t |-> "obj", kv |-> f]

\* serde_json::Value::get(key): None unless an object holding the key
JsonGet(value, key) ==
    IF value.t = "obj" /\ key \in DOMAIN value.kv THEN Some(value.kv[key]) ELSE None

\* serde_json::Value::to_string; an object prints as braces around its members,
\* of which only the braces are kept here
JsonToString(value) ==
    CASE value.t = "num" -> value.text
      [] value.t = "str" -> <<"\"">> \o value.text \o <<"\"">>
      [] value.t = "null" -> <<"n", "u", "l", "l">>
      [] OTHER -> <<"{", "}">>

RECURSIVE get_by_path_partial(_, _)
\* a walk that gives the value reached so far when a component is missing
get_by_path_partial(object, components) ==
    IF components = <<>> THEN Some(object)
    ELSE LET new_value == JsonGet(object, Head(components))
         IN IF new_value.some THEN get_by_path_partial(new_value.v, Tail(components))
            ELSE Some(object)

RECURSIVE get_by_path(_, _)
get_by_path(object, components) ==
    IF components = <<>> THEN Some(object)
    ELSE LET new_value == JsonGet(object, Head(components))
         IN IF new_value.some THEN get_by_path(new_value.v, Tail(components))
            ELSE None

----------------------------------------------------------------------------
(* config.rs: Sensor *)

\* Path::is_absolute, on the components of the path
IsAbsolute(path) == path # <<>> /\ path[1] = <<"/">>

\* get_value with the backend chosen by the path: the file when it is absolute
Sensor_get_value_ByPath(self, sensors, fileRead) ==
    LET value ==
            IF IsAbsolute(self.path)
            THEN IF fileRead.some THEN Ok(Trim(fileRead.v)) ELSE Err("io")
            ELSE LET found == get_by_path(sensors, self.path)
                 IN IF found.some THEN Ok(JsonToString(found.v)) ELSE Err("lookup")
        number == IF value.kind = "ok" THEN ParseF32(value.val) ELSE value
        mapped == SensorMap_map(self.map.v, number.val)
    IN IF number.kind # "ok" THEN number
       ELSE IF ~self.map.some THEN number
       ELSE IF mapped.panic THEN Panic("clamp: min > max")
       ELSE Ok(mapped.val)

\* A Sensor is [name, label, round, map, source, path]: label, round and map are
\* Options, source is "file" or "sensors", path is the sequence of its components.
\* fileRead is what std::fs::read_to_string gives for the path: None on an I/O
\* error, Some(text) otherwise.
Sensor_get_value(self, sensors, fileRead) ==
    LET value ==
            IF self.source = "file"
            THEN IF fileRead.some THEN Ok(Trim(fileRead.v)) ELSE Err("io")
            ELSE LET found == get_by_path(sensors, self.path)
                 IN IF found.some THEN Ok(JsonToString(found.v)) ELSE Err("lookup")
        number == IF value.kind = "ok" THEN ParseF32(value.val) ELSE value
        mapped == SensorMap_map(self.map.v, number.val)
    IN IF number.kind # "ok" THEN number
       ELSE IF ~self.map.some THEN number
       ELSE IF mapped.panic THEN Panic("clamp: min > max")
       ELSE Ok(mapped.val)

\* Sensor::prefix: the label's name if there is a label, else the sensor's name
Sensor_prefix(self) ==
    (IF self.label.some THEN self.label.v.name ELSE self.name) \o <<":", " ">>

\* Sensor::suffix: a space and the label's unit, if any
Sensor_suffix(self) ==
    <<" ">> \o (IF self.label.some THEN self.label.v.unit ELSE <<>>)

RECURSIVE PadLeft(_, _)
\* s with zeros before it up to n characters
PadLeft(s, n) == IF Len(s) >= n THEN s ELSE PadLeft(<<"0">> \o s, n)

SpecialText(value) ==
    CASE value.k = "inf" -> <<"i", "n", "f">>
      [] value.k = "ninf" -> <<"-", "i", "n", "f">>
      [] OTHER -> <<"N", "a", "N">>

\* the decimal expansion cut after places digits
FormatFixedTrunc(value, places) ==
    IF ~IsFin(value) THEN SpecialText(value)
    ELSE LET m == (Abs(value.n) * Pow10(places)) \div value.d
             ip == NatToStr(m \div Pow10(places))
             fp == PadLeft(NatToStr(m % Pow10(places)), places)
         IN (IF value.n < 0 \/ value.k = "nzero" THEN <<"-">> ELSE <<>>)
            \o ip \o (IF places = 0 THEN <<>> ELSE <<".">> \o fp)

\* format!("{:.*}", places, value): the decimal expansion rounded to places digits,
\* a tie to the even digit; a negative value keeps its sign when it rounds to zero
FormatFixed(value, places) ==
    IF ~IsFin(value) THEN SpecialText(value)
    ELSE LET scaled == Abs(value.n) * Pow10(places)
             q == scaled \div value.d
             r == scaled % value.d
             m == IF 2 * r > value.d \/ (2 * r = value.d /\ q % 2 = 1) THEN q + 1 ELSE q
             ip == NatToStr(m \div Pow10(places))
             fp == PadLeft(NatToStr(m % Pow10(places)), places)
         IN (IF value.n < 0 \/ value.k = "nzero" THEN <<"-">> ELSE <<>>)
            \o ip \o (IF places = 0 THEN <<>> ELSE <<".">> \o fp)

\* f32::to_string: the shortest decimal that reads back as the value.  Modelled
\* for the values with at most three decimals, which the readings of the model are.
FormatDisplay(value) ==
    CASE ~IsFin(value) -> SpecialText(value)
      [] IsFin(value) /\ value.d = 1 -> FormatFixed(value, 0)
      [] IsFin(value) /\ value.d # 1 /\ 10 % value.d = 0 -> FormatFixed(value, 1)
      [] IsFin(value) /\ 10 % value.d # 0 /\ 100 % value.d = 0 -> FormatFixed(value, 2)
      [] IsFin(value) /\ 100 % value.d # 0 /\ 1000 % value.d = 0 -> FormatFixed(value, 3)

Sensor_format_value(self, value) ==
    IF self.round.some THEN FormatFixed(value, self.round.v) ELSE FormatDisplay(value)

\* tests::test_format holds of Sensor_format_value (7.466321 cut to 7.4663, which
\* rounds alike and keeps the products within TLC's integers)
TestFormat ==
    LET v == Rat(74663, 10000)
        sensor(round) == [round |-> round]
    IN /\ Sensor_format_value(sensor(Some(3)), v) = <<"7", ".", "4", "6", "6">>
       /\ Sensor_format_value(sensor(Some(2)), v) = <<"7", ".", "4", "7">>
       /\ Sensor_format_value(sensor(Some(0)), v) = <<"7">>

----------------------------------------------------------------------------
(* main.rs: CPUUsageWidget *)

RECURSIVE Split(_, _)
\* str::split(sep) for a one-character separator: "" splits into one empty piece
Split(s, sep) ==
    LET i == IndexOf(s, sep)
    IN IF i = 0 THEN <<s>>
       ELSE <<SubSeq(s, 1, i - 1)>> \o Split(SubSeq(s, i + 1, Len(s)), sep)

\* Iterator::skip(1)
Skip1(xs) == IF xs = <<>> THEN <<>> ELSE Tail(xs)

RECURSIVE SkipWhileEmpty(_)
\* Iterator::skip_while(|x| x.is_empty())
SkipWhileEmpty(xs) ==
    IF xs # <<>> /\ Head(xs) = <<>> THEN SkipWhileEmpty(Tail(xs)) ELSE xs

RECURSIVE SumSeq(_)
SumSeq(xs) == IF xs = <<>> THEN 0 ELSE Head(xs) + SumSeq(Tail(xs))

RECURSIVE ParseAllU64(_)
\* map(|x| x.parse::<u64>()).collect::<Result<Vec<_>>>(): the first failure wins
ParseAllU64(xs) ==
    IF xs = <<>> THEN Ok(<<>>)
    ELSE IF ~AllDigits(Head(xs)) THEN Err("parse")
    ELSE LET rest == ParseAllU64(Tail(xs))
         IN IF rest.kind = "ok" THEN Ok(<<StrToNat(Head(xs))>> \o rest.val) ELSE rest

\* get_cpu_usage(): stat is what reading the first line of /proc/stat gives, None
\* when the file cannot be opened or read
get_cpu_usage(stat) ==
    IF ~stat.some THEN Err("io")
    ELSE ParseAllU64(SkipWhileEmpty(Skip1(Split(Trim(stat.v), " "))))

\* CPUUsageWidget::refresh: [self, ret]
CPUUsageWidget_refresh(self, stat) ==
    LET usage == get_cpu_usage(stat)
    IN IF usage.kind # "ok" THEN [self |-> self, ret |-> usage]
       ELSE IF Len(usage.val) < 4
            THEN [self |-> self, ret |-> Panic("index out of bounds")]
       ELSE [self |-> [self EXCEPT !.last_idle = usage.val[4],
                                   !.last_sum = SumSeq(usage.val)],
             ret |-> Ok(<<>>)]

\* a get that keeps the old baseline
GetBaselineStale(self, idle, sum) == self

\* the baseline assignments of get (main.rs:121-122)
GetBaseline(self, idle, sum) == [self EXCEPT !.last_idle = idle, !.last_sum = sum]

\* CPUUsageWidget::get: [self, ret].  nproc is what get_cpu_count() gives when the
\* OnceCell is empty: the core count, or 0 when nproc fails or prints no u8 (a panic).
\* A u64 subtraction below zero panics (debug build); the counters of /proc/stat
\* only grow, so it does not happen here.
CPUUsageWidget_get(self, stat, nproc) ==
    LET curr == get_cpu_usage(stat)
        idle == curr.val[4]
        sum == SumSeq(curr.val)
        delta_total == sum - self.last_sum
        delta_idle == idle - self.last_idle
        usage == (1000 * (delta_total - delta_idle + 5)) \div 10
        updated == GetBaseline(self, idle, sum)
        cpu_count == IF self.cpu_count # 0 THEN self.cpu_count ELSE nproc
        result == Clamp(FMul(FDiv(FInt(usage), FInt(cpu_count)), Rat(1, 100)),
                        FInt(0), FInt(100))
    IN IF curr.kind # "ok" THEN [self |-> self, ret |-> curr]
       ELSE IF Len(curr.val) < 4
            THEN [self |-> self, ret |-> Panic("index out of bounds")]
       ELSE IF sum < self.last_sum \/ idle < self.last_idle
               \/ delta_total < delta_idle
            THEN [self |-> self, ret |-> Panic("attempt to subtract with overflow")]
       ELSE IF cpu_count = 0
            THEN [self |-> updated, ret |-> Panic("Could not run nproc")]
       ELSE [self |-> [updated EXCEPT !.cpu_count = cpu_count],
             ret |-> Ok(result.val)]

\* the first line of /proc/stat for the counters: "cpu  <user> <nice> <system> ..."
RECURSIVE JoinFields(_)
JoinFields(fields) ==
    IF fields = <<>> THEN <<>>
    ELSE IF Len(fields) = 1 THEN NatToStr(fields[1])
    ELSE NatToStr(Head(fields)) \o <<" ">> \o JoinFields(Tail(fields))

StatLine(fields) == <<"c", "p", "u", " ", " ">> \o JoinFields(fields) \o <<"\n">>

----------------------------------------------------------------------------
(* SpecMap: the pure functions of config.rs on bounded inputs *)

NoRet == [kind |-> "none"]

CpuNew == [last_idle |-> 0, last_sum |-> 0, cpu_count |-> 0]

\* the sensors get_value is applied to: file-backed and snapshot-backed, with
\* and without a range map
MapSensor(source, map) ==
    [name |-> <<"s">>, label |-> None, round |-> None, map |-> map,
     source |-> source,
     path |-> IF source = "file" THEN <<<<"/">>, <<"t">>>> ELSE <<<<"c">>, <<"t">>>>]

\* what the file holds, or what the snapshot holds under c/t
RawTexts == {<<"0">>, <<"1">>, <<"2">>, <<"3">>, <<"x">>}

MapSnapshot(text) ==
    JObj([k \in {<<"c">>} |->
            JObj([l \in {<<"t">>} |->
                    IF AllDigits(text) THEN JNum(text) ELSE JStr(text)])])

\* a snapshot that holds 2 under c/t and, when rooted, 3 under the keys "/" and "t"
BackendSnapshot(rooted) ==
    JObj([k \in {<<"c">>} \cup (IF rooted THEN {<<"/">>} ELSE {}) |->
            JObj([l \in {<<"t">>} |-> JNum(IF k = <<"c">> THEN <<"2">> ELSE <<"3">>)])])

\* sensors whose source and path are chosen apart: either source with an absolute
\* and with a relative path; the file at the path holds 7 or cannot be read
BackendCalls ==
    {[op |-> "get_value", sensor |-> [MapSensor(src, None) EXCEPT !.path = p],
      sensors |-> BackendSnapshot(rooted), fileRead |-> fr] :
        src \in {"file", "sensors"},
        p \in {<<<<"/">>, <<"t">>>>, <<<<"c">>, <<"t">>>>},
        rooted \in BOOLEAN,
        fr \in {None, Some(<<"7", "\n">>)}}

\* {"a": {"b": {"c": leaf}}}
NestedDoc(leaf) ==
    JObj([k \in {<<"a">>} |-> JObj([l \in {<<"b">>} |-> JObj([m \in {<<"c">>} |-> leaf])])])

\* the leaves of the document: numbers, a string, null and an object
Leaves == {JNum(<<"4", "2">>), JNum(<<"4", ".", "5">>), JNum(<<"-", "3">>),
           JStr(<<"4", "2">>), JStr(<<"h", "o", "t">>), JNull, JObj(EmptyMap)}

\* paths into it: a/b/c, paths with a component missing at each depth, a path
\* that ends above the leaf, one that goes below it, and the empty path
WalkPaths ==
    { <<<<"a">>, <<"b">>, <<"c">>>>, <<<<"a">>, <<"x">>>>, <<<<"x">>, <<"b">>, <<"c">>>>,
      <<<<"a">>, <<"b">>, <<"x">>>>, <<<<"a">>, <<"b">>>>,
      <<<<"a">>, <<"b">>, <<"c">>, <<"d">>>>, <<>> }

WalkCalls ==
    {[op |-> "get_value", sensor |-> [MapSensor("sensors", None) EXCEPT !.path = p],
      sensors |-> NestedDoc(leaf), fileRead |-> None] :
        p \in WalkPaths, leaf \in Leaves}

\* the values format_value is applied to, in thousandths: whole numbers, ties of
\* each place, values that round up into the next digit or down to zero
Thousandths == {0, 5, 15, 125, 250, 350, 500, 1500, 2500, 7466, 9995, 12000,
                0 - 1, 0 - 4, 0 - 50, 0 - 500, 0 - 1250, 0 - 7466}

MaxRound == 3

FormatCalls ==
    {[op |-> "format_value", sensor |-> [MapSensor("file", None) EXCEPT !.round = r],
      value |-> v] :
        r \in {None} \cup {Some(n) : n \in 0..MaxRound},
        v \in {Rat(k, 1000) : k \in Thousandths} \cup {FInf, FNegInf, FNaN, FNegZero}}

MapCalls ==
    {[op |-> "map", map |-> MkMap(i0, i1, o0, o1), value |-> FInt(v)] :
        i0 \in MapValues, i1 \in MapValues, o0 \in MapValues, o1 \in MapValues,
        v \in MapValues}

GetValueCalls ==
    {[op |-> "get_value", sensor |-> MapSensor(src, Some(MkMap(i0, i1, o0, o1))),
      sensors |-> MapSnapshot(text), fileRead |-> Some(text \o <<"\n">>)] :
        src \in {"file", "sensors"}, text \in RawTexts,
        i0 \in {0, 1}, i1 \in {0, 1, 2}, o0 \in {0, 1, 3}, o1 \in {0, 1, 3}}
    \cup
    {[op |-> "get_value", sensor |-> MapSensor(src, None),
      sensors |-> snap, fileRead |-> fr] :
        src \in {"file", "sensors"},
        snap \in {MapSnapshot(<<"2">>), JObj([k \in {<<"c">>} |-> JNull])},
        fr \in {None, Some(<<"2", "\n">>)}}

\* main() is not running
MainIdle ==
    /\ pc = "idle"
    /\ args = [once |-> FALSE, no_format |-> FALSE, kill |-> FALSE, daemon |-> FALSE]
    /\ config = [format |-> None, poll_rate |-> 1000, sensors |-> <<>>]
    /\ sensors_data = JNull
    /\ widgets = EmptyMap
    /\ format = <<>>
    /\ err = ""
    /\ tick = 0
    /\ frames = 0
    /\ lastFrame = <<>>
    /\ slept = 0
    /\ tickLog = NoLog
    /\ resolved = {}
    /\ cpuLog = <<>>
    /\ fetches = 0

InitMap ==
    /\ MainIdle
    /\ hCall \in MapCalls \cup GetValueCalls \cup BackendCalls \cup WalkCalls
                \cup FormatCalls
    /\ hRet = NoRet
    /\ cpu = CpuNew
    /\ hPrev = <<>>
    /\ kernel = <<>>

\* map.map(value)
MapCall ==
    /\ hCall.op = "map"
    /\ hRet = NoRet
    /\ hRet' = LET r == SensorMap_map(hCall.map, hCall.value)
               IN IF r.panic THEN Panic("clamp: min > max") ELSE Ok(r.val)
    /\ UNCHANGED <<hCall, cpu, hPrev, kernel, mainVars>>

\* sensor.get_value(&sensors_data)
GetValueCall ==
    /\ hCall.op = "get_value"
    /\ hRet = NoRet
    /\ hRet' = Sensor_get_value(hCall.sensor, hCall.sensors, hCall.fileRead)
    /\ UNCHANGED <<hCall, cpu, hPrev, kernel, mainVars>>

\* sensor.format_value(value)
FormatCall ==
    /\ hCall.op = "format_value"
    /\ hRet = NoRet
    /\ hRet' = Ok(Sensor_format_value(hCall.sensor, hCall.value))
    /\ UNCHANGED <<hCall, cpu, hPrev, kernel, mainVars>>

NextMap == MapCall \/ GetValueCall \/ FormatCall

SpecMap == InitMap /\ [][NextMap]_vars

----------------------------------------------------------------------------
(* SpecCpu: CPUUsageWidget under any sequence of refresh() and get() calls *)

NoCall == [op |-> "none"]

\* the counters at boot: user, nice, system, idle, iowait
KernelBoot == {<<u, 0, 1, i, 0>> : u \in 0..1, i \in 0..1}

\* the counters only grow
Advance(k) ==
    {k2 \in {[k EXCEPT ![1] = @ + b, ![4] = @ + i, ![5] = @ + w] :
                b \in 0..MaxStep, i \in 0..MaxStep, w \in 0..1} :
        SumSeq(k2) <= MaxTotal}

\* what a read of /proc/stat's first line gives for the counters k: the whole line,
\* a line cut after three fields or after the label, an empty file, a line with a
\* field that is no number, or an I/O error
StatShapes == {"full", "short", "label", "empty", "bad", "io"}

StatRead(shape, k) ==
    CASE shape = "full" -> Some(StatLine(k))
      [] shape = "short" -> Some(StatLine(SubSeq(k, 1, 3)))
      [] shape = "label" -> Some(StatLine(<<>>))
      [] shape = "empty" -> Some(<<>>)
      [] shape = "bad" -> Some(<<"c", "p", "u", " ", " ", "1", " ", "x", " ", "3", " ", "4", "\n">>)
      [] OTHER -> None

\* the counters a read of that shape finds: a whole line shows how far they grew
ReadCounters(shape) == IF shape = "full" THEN Advance(kernel) ELSE {kernel}

\* fewer than 4 numeric fields, including none
ShortShapes == {"short", "label", "empty"}

InitCpu ==
    /\ MainIdle
    /\ hCall = NoCall
    /\ hRet = NoRet
    /\ cpu = CpuNew
    /\ hPrev = <<>>
    /\ kernel \in KernelBoot

\* the counters read by the last successful call, this one excluded
PrevRead == IF hRet.kind = "ok" THEN kernel ELSE hPrev

CpuRefreshCall ==
    /\ hRet.kind # "panic"
    /\ \E shape \in StatShapes : \E k \in ReadCounters(shape) :
        \E r \in {CPUUsageWidget_refresh(cpu, StatRead(shape, k))} :
           /\ hCall' = [op |-> "refresh", shape |-> shape, before |-> cpu]
           /\ hRet' = r.ret
           /\ cpu' = r.self
           /\ hPrev' = PrevRead
           /\ kernel' = k
           /\ UNCHANGED mainVars

CpuGetCall ==
    /\ hRet.kind # "panic"
    /\ \E shape \in StatShapes : \E k \in ReadCounters(shape),
          nproc \in (IF cpu.cpu_count = 0 THEN 0..MaxCores ELSE {cpu.cpu_count}) :
        \E r \in {CPUUsageWidget_get(cpu, StatRead(shape, k), nproc)} :
           /\ hCall' = [op |-> "get", shape |-> shape, before |-> cpu]
           /\ hRet' = r.ret
           /\ cpu' = r.self
           /\ hPrev' = PrevRead
           /\ kernel' = k
           /\ UNCHANGED mainVars

NextCpu == CpuRefreshCall \/ CpuGetCall

SpecCpu == InitCpu /\ [][NextCpu]_vars

----------------------------------------------------------------------------
(* main.rs: the widgets and update_format *)

MINIMAL_POLL_RATE == 1000

\* "\x1b[H\x1b[2J"
CLEAR_SEQ == <<"ESC", "[", "H", "ESC", "[", "2", "J">>

format_var(var) == <<"{">> \o var \o <<"}">>

S_time == <<"t", "i", "m", "e">>
S_cpu_usage == <<"c", "p", "u", "_", "u", "s", "a", "g", "e">>

\* Box<dyn Widget>; the CPUUsageWidget's fields are the variable cpu
SensorWidget(sensor) == [kind |-> "sensor", sensor |-> sensor]
TimeWidget == [kind |-> "time"]
DummyWidget(text) == [kind |-> "dummy", text |-> text]
CPUUsageWidget == [kind |-> "cpu"]

RECURSIVE InsertSensors(_, _, _)
\* main.rs:225-230: a widget for each sensor whose "{name}" the format contains
InsertSensors(map, fmt, sensors) ==
    IF sensors = <<>> THEN map
    ELSE LET sensor == Head(sensors)
             var == format_var(sensor.name)
         IN InsertSensors(IF Contains(fmt, var)
                          THEN Insert(map, var, SensorWidget(sensor)) ELSE map,
                          fmt, Tail(sensors))

RECURSIVE InsertAllSensors(_, _)
InsertAllSensors(map, sensors) ==
    IF sensors = <<>> THEN map
    ELSE InsertAllSensors(Insert(map, format_var(Head(sensors).name),
                                 SensorWidget(Head(sensors))),
                          Tail(sensors))

\* widgets built without looking at the format
BuildWidgetsUnfiltered(fmt, sensors, once) ==
    Insert(Insert(InsertAllSensors(EmptyMap, sensors), format_var(S_time), TimeWidget),
           format_var(S_cpu_usage),
           IF once THEN DummyWidget(<<"?", "?">>) ELSE CPUUsageWidget)

\* widgets built with the tracker in once mode too
BuildWidgetsAlwaysCpu(fmt, sensors, once) ==
    LET w1 == InsertSensors(EmptyMap, fmt, sensors)
        w2 == IF Contains(fmt, format_var(S_time))
              THEN Insert(w1, format_var(S_time), TimeWidget) ELSE w1
    IN IF Contains(fmt, format_var(S_cpu_usage))
       THEN Insert(w2, format_var(S_cpu_usage), CPUUsageWidget)
       ELSE w2

\* widgets built without the time widget
BuildWidgetsNoTime(fmt, sensors, once) ==
    LET w1 == InsertSensors(EmptyMap, fmt, sensors)
    IN IF Contains(fmt, format_var(S_cpu_usage))
       THEN Insert(w1, format_var(S_cpu_usage),
                   IF once THEN DummyWidget(<<"?", "?">>) ELSE CPUUsageWidget)
       ELSE w1

\* main.rs:216-246
BuildWidgets(fmt, sensors, once) ==
    LET w1 == InsertSensors(EmptyMap, fmt, sensors)
        w2 == IF Contains(fmt, format_var(S_time))
              THEN Insert(w1, format_var(S_time), TimeWidget) ELSE w1
    IN IF Contains(fmt, format_var(S_cpu_usage))
       THEN Insert(w2, format_var(S_cpu_usage),
                   IF once THEN DummyWidget(<<"?", "?">>) ELSE CPUUsageWidget)
       ELSE w2

\* Widget::value as [self, ret]: self is the tracker, ret the Result<String>.
\* in is what the environment gives during the call: files (path -> what reading
\* it gives), stat (the read of /proc/stat), nproc and now (the local time).
Widget_value(widget, data, self, in) ==
    CASE widget.kind = "sensor" ->
            LET v == Sensor_get_value(widget.sensor, data,
                                      IF widget.sensor.source = "file"
                                      THEN in.files[widget.sensor.path] ELSE None)
            IN [self |-> self,
                ret |-> IF v.kind = "ok"
                        THEN Ok(Sensor_format_value(widget.sensor, v.val)) ELSE v]
      [] widget.kind = "time" -> [self |-> self, ret |-> Ok(in.now)]
      [] widget.kind = "dummy" -> [self |-> self, ret |-> Ok(widget.text)]
      [] widget.kind = "cpu" ->
            LET r == CPUUsageWidget_get(self, in.stat, in.nproc)
            IN [self |-> r.self,
                ret |-> IF r.ret.kind = "ok" THEN Ok(FormatFixed(r.ret.val, 1))
                        ELSE r.ret]

\* the update of the trait's default for every widget
Widget_update_Default(widget, self, in) == [self |-> self, ret |-> Ok(<<>>)]

\* Widget::update: only the CPUUsageWidget does anything
Widget_update(widget, self, in) ==
    IF widget.kind = "cpu" THEN CPUUsageWidget_refresh(self, in.stat)
    ELSE [self |-> self, ret |-> Ok(<<>>)]

\* str::replacen(from, to, 1)
ReplaceFirst(s, from, to) ==
    IF Contains(s, from)
    THEN LET i == CHOOSE j \in 1..Len(s) :
                    /\ SubSeq(s, j, j + Len(from) - 1) = from
                    /\ \A l \in 1..(j - 1) : SubSeq(s, l, l + Len(from) - 1) # from
         IN SubSeq(s, 1, i - 1) \o to \o SubSeq(s, i + Len(from), Len(s))
    ELSE s

\* the value assigned in place of the replaced format
SubstituteWhole(fmt, var, value) == IF Contains(fmt, var) THEN value ELSE fmt

\* the assignment of main.rs:251
Substitute(fmt, var, value) == Replace(fmt, var, value)

RECURSIVE UpdateLoop(_, _, _, _, _)
\* the loop of update_format over the widgets in the order the HashMap yields them;
\* acc is [format, self, ret, calls, values], the last two a record of the
\* value() calls made and of what they returned
UpdateLoop(acc, data, map, order, in) ==
    IF order = <<>> THEN acc
    ELSE LET var == Head(order)
             r == Widget_value(map[var], data, acc.self, in)
         IN IF r.ret.kind # "ok"
            THEN [acc EXCEPT !.self = r.self, !.ret = r.ret,
                             !.calls = Append(@, var)]
            ELSE UpdateLoop([format |-> Substitute(acc.format, var, r.ret.val),
                             self |-> r.self,
                             ret |-> acc.ret,
                             calls |-> Append(acc.calls, var),
                             values |-> Insert(acc.values, var, r.ret.val)],
                            data, map, Tail(order), in)

\* main.rs:248-255
update_format(data, fmt, map, order, self, in) ==
    UpdateLoop([format |-> fmt, self |-> self, ret |-> Ok(<<>>),
                calls |-> <<>>, values |-> EmptyMap],
               data, map, order, in)

RECURSIVE UpdateAll(_, _, _, _)
\* main.rs:276-278: [self, ret, calls]
UpdateAll(acc, map, order, in) ==
    IF order = <<>> THEN acc
    ELSE LET r == Widget_update(map[Head(order)], acc.self, in)
             calls == IF map[Head(order)].kind = "cpu"
                      THEN Append(acc.calls, "refresh") ELSE acc.calls
         IN IF r.ret.kind # "ok" THEN [self |-> r.self, ret |-> r.ret, calls |-> calls]
            ELSE UpdateAll([self |-> r.self, ret |-> acc.ret, calls |-> calls],
                           map, Tail(order), in)

----------------------------------------------------------------------------
(* The configurations and the environment of main *)

S_a == <<"a">>
S_b == <<"b">>
PathA == <<<<"/">>, <<"s", "y", "s">>, <<"a">>>>
PathB == <<<<"c", "h", "i", "p">>, <<"t", "e", "m", "p">>>>

\* a: a sysfs file shown as read; b: an lm_sensors reading mapped from 0..4 to 0..10
\* and shown with one decimal
SensorA == [name |-> S_a, label |-> None, round |-> None, map |-> None,
            source |-> "file", path |-> PathA]
SensorB == [name |-> S_b, label |-> None, round |-> Some(1),
            map |-> Some(MkMap(0, 4, 0, 10)), source |-> "sensors", path |-> PathB]

ConfigSensors == <<SensorA, SensorB>>

TokA == format_var(S_a)
TokB == format_var(S_b)
TokTime == format_var(S_time)
TokCpu == format_var(S_cpu_usage)

Templates ==
    { TokA \o <<" ">> \o TokA,
      TokB,
      TokA \o <<":">> \o TokCpu,
      TokCpu \o <<" ">> \o TokCpu,
      TokTime \o <<" ">> \o format_var(<<"z">>),
      format_var(<<"t", "i", "m", "e", "s", "t", "a", "m", "p">>),
      <<"k">>,
      TokA \o TokB \o TokA }

ArgSets ==
    { [once |-> o, no_format |-> FALSE, kill |-> FALSE, daemon |-> FALSE] :
        o \in BOOLEAN }
    \cup { [once |-> FALSE, no_format |-> TRUE, kill |-> FALSE, daemon |-> FALSE],
           [once |-> FALSE, no_format |-> FALSE, kill |-> TRUE, daemon |-> FALSE],
           [once |-> FALSE, no_format |-> FALSE, kill |-> FALSE, daemon |-> TRUE] }

\* Config::poll_rate is a u16: the ends of its range, the two sides of the
\* minimum, and a rate between
PollRates == {0, 999, 1000, 1500, 65535}

Configs ==
    { [format |-> f, poll_rate |-> r, sensors |-> ConfigSensors] :
        f \in {None} \cup {Some(t) : t \in Templates}, r \in PollRates }

\* the sensors command: chip/temp as a JSON number, or a chip without temp
Snapshot(text) ==
    JObj([k \in {PathB[1]} |-> JObj([l \in {PathB[2]} |-> JNum(text)])])

Snapshots ==
    { Snapshot(<<"1", ".", "0">>), Snapshot(<<"2", ".", "0">>),
      JObj([k \in {PathB[1]} |-> JObj(EmptyMap)]) }

\* get_temps(): main.rs:14-24
GetTempsResults == {Err("sensors")} \cup {Ok(snap) : snap \in Snapshots}

\* what reading a sensor's file gives
FileReads == {None, Some(<<"7", "\n">>), Some(<<"8", "\n">>), Some(<<"x", "\n">>)}

\* chrono::Local::now().format("%H:%M:%S")
Times == { <<"1", "2", ":", "0", "0", ":", "0", "0">>,
           <<"1", "2", ":", "0", "0", ":", "0", "1">> }

\* the orders in which a HashMap with these keys can yield them
Orders(keys) ==
    {o \in [1..Cardinality(keys) -> keys] : \A i, j \in DOMAIN o : o[i] = o[j] => i = j}

FilePaths(map) ==
    {map[k].sensor.path : k \in {x \in DOMAIN map :
        map[x].kind = "sensor" /\ map[x].sensor.source = "file"}}

HasKind(map, kind) == \E k \in DOMAIN map : map[k].kind = kind

\* the counters of /proc/stat as main finds them at its start
KernelStart == <<1, 0, 1, 1, 0>>

\* between two reads of main, user and idle grow by at most one
MainAdvance ==
    {k2 \in {[kernel EXCEPT ![1] = @ + b, ![4] = @ + i] : b \in 0..1, i \in 0..1} :
        SumSeq(k2) <= MaxTotal}

\* the reads of /proc/stat the environment can give: its shape and the counters
StatReads ==
    {[shape |-> "full", k |-> k] : k \in MainAdvance}
    \cup {[shape |-> sh, k |-> kernel] : sh \in StatShapes \ {"full"}}

\* what the environment can give to one pass over the widgets: only what the
\* widgets of the map read is drawn
Inputs(map) ==
    { [files |-> f, stat |-> StatRead(sr.shape, sr.k), kernel |-> sr.k,
       nproc |-> n, now |-> t] :
        f \in [FilePaths(map) -> FileReads],
        sr \in (IF HasKind(map, "cpu") THEN StatReads
                ELSE {[shape |-> "io", k |-> kernel]}),
        n \in (IF HasKind(map, "cpu") /\ cpu.cpu_count = 0 THEN 0..MaxCores
               ELSE {cpu.cpu_count}),
        t \in (IF HasKind(map, "time") THEN Times ELSE {<<>>}) }

\* Widget::update reads nothing but /proc/stat
UpdateInputs(map) ==
    { [stat |-> StatRead(sr.shape, sr.k), kernel |-> sr.k] :
        sr \in (IF HasKind(map, "cpu") THEN StatReads
                ELSE {[shape |-> "io", k |-> kernel]}) }

----------------------------------------------------------------------------
(* Spec: main() *)

Init ==
    /\ pc = "start"
    /\ args \in ArgSets
    /\ config \in Configs
    /\ sensors_data = JNull
    /\ widgets = EmptyMap
    /\ format = <<>>
    /\ cpu = CpuNew
    /\ err = ""
    /\ tick = 0
    /\ frames = 0
    /\ lastFrame = <<>>
    /\ slept = 0
    /\ tickLog = NoLog
    /\ resolved = {}
    /\ cpuLog = <<>>
    /\ fetches = 0
    /\ hCall = NoCall
    /\ hRet = NoRet
    /\ hPrev = <<>>
    /\ kernel = KernelStart

\* a failed tick skipped: the loop goes on to its reset
EndPcSkip(ret) == "reset"

\* how main ends on a Result that is not Ok
EndPc(ret) == IF ret.kind = "panic" THEN "panic" ELSE "exit_err"
EndErr(ret) == IF ret.kind = "panic" THEN ret.why ELSE ret.err

SeqRange(xs) == {xs[i] : i \in DOMAIN xs}

\* the sensors and tracker calls among the value() calls of one update_format
SensorsCalled(map, calls) ==
    {map[v].sensor.name : v \in {x \in SeqRange(calls) : map[x].kind = "sensor"}}

GetsCalled(map, calls) ==
    IF \E v \in SeqRange(calls) : map[v].kind = "cpu" THEN <<"get">> ELSE <<>>

\* main.rs:181-257: the checks, the first snapshot and the widgets
Startup ==
    /\ pc = "start"
    /\ \E temps \in GetTempsResults :
        IF config.poll_rate < MINIMAL_POLL_RATE
        THEN /\ pc' = "exit_err"
             /\ err' = "Poll rate must be at least 1000ms"
             /\ UNCHANGED <<config, sensors_data, widgets, format, fetches>>
        ELSE IF args.kill \/ args.daemon
        THEN /\ pc' = "panic"
             /\ err' = "not yet implemented"
             /\ UNCHANGED <<config, sensors_data, widgets, format, fetches>>
        ELSE IF temps.kind # "ok"
        THEN /\ pc' = "exit_err"
             /\ err' = temps.err
             /\ UNCHANGED <<config, sensors_data, widgets, format, fetches>>
        ELSE IF args.no_format \/ ~config.format.some
        THEN /\ pc' = "panic"
             /\ err' = "not yet implemented"
             /\ sensors_data' = temps.val
             /\ fetches' = fetches + 1
             /\ UNCHANGED <<config, widgets, format>>
        ELSE /\ pc' = IF args.once THEN "once" ELSE "loop"
             /\ sensors_data' = temps.val
             /\ fetches' = fetches + 1
             /\ widgets' = BuildWidgets(config.format.v, config.sensors, args.once)
             /\ config' = [config EXCEPT !.sensors = <<>>]
             /\ format' = config.format.v
             /\ err' = err
    /\ UNCHANGED <<args, cpu, tick, frames, lastFrame, slept, tickLog, resolved,
                   cpuLog, harnessVars, kernel>>

\* update_format, then what main does with its result: print prefix, the format
\* and a newline and go to next, or end
Render(prefix, next) ==
    \E order \in Orders(DOMAIN widgets), in \in Inputs(widgets) :
        \E r \in {update_format(sensors_data, format, widgets, order, cpu, in)} :
           /\ format' = r.format
           /\ cpu' = r.self
           /\ kernel' = in.kernel
           /\ tickLog' = [calls |-> r.calls, values |-> r.values]
           /\ resolved' = resolved \cup SensorsCalled(widgets, r.calls)
           /\ cpuLog' = cpuLog \o GetsCalled(widgets, r.calls)
           /\ IF r.ret.kind = "ok"
              THEN /\ frames' = frames + 1
                   /\ lastFrame' = prefix \o r.format \o <<"\n">>
                   /\ pc' = next
                   /\ err' = err
              ELSE /\ pc' = EndPc(r.ret)
                   /\ err' = EndErr(r.ret)
                   /\ UNCHANGED <<frames, lastFrame>>

\* main.rs:259-263 and 290
RenderOnce ==
    /\ pc = "once"
    /\ Render(<<>>, "exit_ok")
    /\ UNCHANGED <<args, config, sensors_data, widgets, tick, slept, fetches,
                   harnessVars>>

\* main.rs:268-269
RenderLoop ==
    /\ pc = "loop"
    /\ tick < MaxTicks
    /\ Render(CLEAR_SEQ, "sleep_rest")
    /\ tick' = tick + 1
    /\ slept' = 0
    /\ UNCHANGED <<args, config, sensors_data, widgets, fetches, harnessVars>>

\* a - b on u16 as a release build computes it: modulo 2^16
U16Sub(a, b) == (a - b) % 65536

\* a first sleep of the whole poll rate
SleepRestWhole(poll_rate) == poll_rate

\* main.rs:271-273: the milliseconds of the first sleep; the u16 subtraction is
\* made only when the rate is above the minimum
SleepRestMillis(poll_rate) ==
    IF poll_rate > MINIMAL_POLL_RATE THEN U16Sub(poll_rate, MINIMAL_POLL_RATE) ELSE 0

\* main.rs:271-273
SleepRest ==
    /\ pc = "sleep_rest"
    /\ slept' = slept + SleepRestMillis(config.poll_rate)
    /\ pc' = "update"
    /\ UNCHANGED <<args, config, sensors_data, widgets, format, cpu, err, tick,
                   frames, lastFrame, tickLog, resolved, cpuLog, fetches, harnessVars,
                   kernel>>

\* main.rs:275-278
UpdateWidgets ==
    /\ pc = "update"
    /\ \E order \in Orders(DOMAIN widgets), in \in UpdateInputs(widgets) :
        \E r \in {UpdateAll([self |-> cpu, ret |-> Ok(<<>>), calls |-> <<>>],
                           widgets, order, in)} :
           /\ cpu' = r.self
           /\ kernel' = in.kernel
           /\ cpuLog' = cpuLog \o r.calls
           /\ pc' = IF r.ret.kind = "ok" THEN "sleep_min" ELSE EndPc(r.ret)
           /\ err' = IF r.ret.kind = "ok" THEN err ELSE EndErr(r.ret)
    /\ UNCHANGED <<args, config, sensors_data, widgets, format, tick, frames,
                   lastFrame, slept, tickLog, resolved, fetches, harnessVars>>

\* main.rs:280
SleepMinimal ==
    /\ pc = "sleep_min"
    /\ slept' = slept + MINIMAL_POLL_RATE
    /\ pc' = "reset"
    /\ UNCHANGED <<args, config, sensors_data, widgets, format, cpu, err, tick,
                   frames, lastFrame, tickLog, resolved, cpuLog, fetches, harnessVars,
                   kernel>>

\* the format kept as the last tick left it
ResetFormatStale(cfg, fmt) == fmt

\* main.rs:283: the format is the configured template again
ResetFormat(cfg, fmt) == cfg.format.v

\* main.rs:282-286
ResetFetch ==
    /\ pc = "reset"
    /\ format' = ResetFormat(config, format)
    /\ \E temps \in GetTempsResults :
        IF temps.kind = "ok"
        THEN /\ sensors_data' = temps.val
             /\ fetches' = fetches + 1
             /\ pc' = "loop"
             /\ err' = err
        ELSE /\ pc' = "exit_err"
             /\ err' = temps.err
             /\ UNCHANGED <<sensors_data, fetches>>
    /\ UNCHANGED <<args, config, widgets, cpu, tick, frames, lastFrame, slept,
                   tickLog, resolved, cpuLog, harnessVars, kernel>>

Next ==
    \/ Startup
    \/ RenderOnce
    \/ RenderLoop
    \/ SleepRest
    \/ UpdateWidgets
    \/ SleepMinimal
    \/ ResetFetch

Spec == Init /\ [][Next]_vars

----------------------------------------------------------------------------
(* Claims about the range map (checked under SpecMap) *)

MapDone == hCall.op = "map" /\ hRet # NoRet

InMin == hCall.map.input[1]
InMax == hCall.map.input[2]
OutMin == hCall.map.output[1]
OutMax == hCall.map.output[2]

\* the value the specification's formula gives, before clamping
LinearMap(map, value) ==
    FAdd(FDiv(FMul(FSub(value, map.input[1]), FSub(map.output[2], map.output[1])),
              FSub(map.input[2], map.input[1])),
         map.output[1])

\* C1: with in_min # in_max and out_min <= out_max, map(v) is
\* (v - in_min) * (out_max - out_min) / (in_max - in_min) + out_min clamped to
\* [out_min, out_max], also when in_min # out_min and when in_min # 0.
C1_MapIsLinearFormula ==
    (MapDone /\ InMin # InMax /\ FLe(OutMin, OutMax))
        => hRet = Ok(Clamp(LinearMap(hCall.map, hCall.value), OutMin, OutMax).val)

\* C2: with in_min < in_max and out_min < out_max, a value within the input range
\* maps into [out_min, out_max], a value below in_min maps to out_min and a value
\* above in_max maps to out_max.
C2_ClampedToNearestBound ==
    (MapDone /\ FLt(InMin, InMax) /\ FLt(OutMin, OutMax))
        => /\ hRet.kind = "ok"
           /\ FLe(OutMin, hRet.val) /\ FLe(hRet.val, OutMax)
           /\ FLt(hCall.value, InMin) => hRet.val = OutMin
           /\ FLt(InMax, hCall.value) => hRet.val = OutMax

\* C3: with inverted output bounds (out_min > out_max) map still returns a value for
\* every input, and that value lies between out_max and out_min.
C3_InvertedOutputReturns ==
    (MapDone /\ FLt(OutMax, OutMin))
        => /\ hRet.kind = "ok"
           /\ FLe(OutMax, hRet.val) /\ FLe(hRet.val, OutMin)

\* C4: resolving a sensor whose range map has in_max = in_min fails with an
\* InvalidRange error for every input value (every reading that parses as a
\* number); no number is returned.
C4_DegenerateRangeIsError ==
    (/\ hCall.op = "get_value" /\ hRet # NoRet
     /\ hCall.sensor.map.some
     /\ hCall.sensor.map.v.input[1] = hCall.sensor.map.v.input[2]
     /\ ParseF32(Trim(hCall.fileRead.v)).kind = "ok")
        => hRet = Err("InvalidRange")

----------------------------------------------------------------------------
(* Claims about the CPU tracker (checked under SpecCpu) *)

GetDone == hCall.op = "get" /\ hRet.kind = "ok"

\* 100 * (1 - delta_idle / delta_total) / core_count
UsageFormula(delta_total, delta_idle, cores) ==
    FDiv(FMul(FInt(100), FSub(FInt(1), Rat(delta_idle, delta_total))), FInt(cores))

\* C5: for a stored baseline and a newly read sample with delta_total > 0, get()
\* returns 100 * (1 - delta_idle / delta_total) / core_count clamped to [0, 100].
C5_GetIsUsageFormula ==
    (GetDone /\ SumSeq(kernel) - hCall.before.last_sum > 0)
        => hRet.val = Clamp(UsageFormula(SumSeq(kernel) - hCall.before.last_sum,
                                         kernel[4] - hCall.before.last_idle,
                                         cpu.cpu_count),
                            FInt(0), FInt(100)).val

\* C6: after every successful get() the stored baseline is the sample that call
\* read, and the baseline a get() computed its deltas against is the sample read by
\* the call before it (the last one that read a sample), never an older one.
C6_BaselineIsLastSample ==
    GetDone => /\ cpu.last_sum = SumSeq(kernel)
               /\ cpu.last_idle = kernel[4]
               /\ hPrev # <<>> => /\ hCall.before.last_sum = SumSeq(hPrev)
                                  /\ hCall.before.last_idle = hPrev[4]

\* a get() that follows an earlier get() or refresh() whose sample differs from its
\* own and from the zero baseline
C6_Witness ==
    /\ GetDone
    /\ hPrev # <<>>
    /\ hCall.before.last_sum = SumSeq(hPrev)
    /\ SumSeq(hPrev) < SumSeq(kernel)
    /\ hPrev[4] < kernel[4]

\* C8: when the counter line holds fewer than 4 numeric fields (including none),
\* refresh() and get() return a ParseError, do not panic, and leave the baseline
\* unchanged.
C8_ShortLineIsParseError ==
    (hCall.op \in {"refresh", "get"} /\ hCall.shape \in ShortShapes)
        => /\ hRet = Err("parse")
           /\ cpu = hCall.before

----------------------------------------------------------------------------
(* Claims about main (checked under Spec) *)

Template == config.format.v

Templated == pc # "start" /\ config.format.some /\ ~args.no_format

\* a frame has just been printed
FramePrinted == pc \in {"sleep_rest", "exit_ok"}

\* C7: in Repeating mode with {cpu_usage} in the template, refresh() is executed
\* before the first get(): the first operation of the tracker is a refresh, so no
\* get() computes a usage against the zero-initialised baseline.
C7_RefreshBeforeFirstGet ==
    (Templated /\ ~args.once /\ Contains(Template, TokCpu) /\ cpuLog # <<>>)
        => cpuLog[1] = "refresh"

\* C9: in templated mode a configured sensor (and the CPU tracker) whose {name}
\* does not occur in the template is never resolved: no get_value call (file read
\* or snapshot lookup) and no counter read is made for it in any tick.
C9_UnreferencedNeverResolved ==
    Templated =>
        /\ \A i \in DOMAIN ConfigSensors :
            ~Contains(Template, format_var(ConfigSensors[i].name))
                => ConfigSensors[i].name \notin resolved
        /\ ~Contains(Template, TokCpu) => (cpuLog = <<>> /\ cpu = CpuNew)

\* two frames were printed from a template that names b and not a, nor the tracker
C9_Witness ==
    /\ Templated
    /\ frames >= 2
    /\ ~Contains(Template, TokA)
    /\ ~Contains(Template, TokCpu)
    /\ resolved = {S_b}

Occurrences(xs, x) == Cardinality({i \in DOMAIN xs : xs[i] = x})

RECURSIVE Expand(_, _)
\* s read once from left to right, each key of values found replaced by its value
Expand(s, values) ==
    IF s = <<>> THEN <<>>
    ELSE IF \E key \in DOMAIN values : Len(key) <= Len(s) /\ SubSeq(s, 1, Len(key)) = key
    THEN LET key == CHOOSE k \in DOMAIN values :
                        Len(k) <= Len(s) /\ SubSeq(s, 1, Len(k)) = k
         IN values[key] \o Expand(SubSeq(s, Len(key) + 1, Len(s)), values)
    ELSE <<s[1]>> \o Expand(Tail(s), values)

\* C10: in templated mode a token that occurs more than once in the template is
\* replaced at every occurrence in a frame by the same string, obtained from a
\* single resolution of that token's source during that tick.
C10_EveryOccurrenceSameValue ==
    (Templated /\ FramePrinted) =>
        /\ \A var \in DOMAIN widgets :
            /\ Occurrences(tickLog.calls, var) = 1
            /\ ~Contains(format, var)
        /\ format = Expand(Template, tickLog.values)
        /\ lastFrame = (IF args.once THEN <<>> ELSE CLEAR_SEQ) \o format \o <<"\n">>

\* the second frame of a template that holds {a} twice, with {b} between
C10_Witness ==
    /\ Templated /\ FramePrinted
    /\ tick = 2
    /\ Template = TokA \o TokB \o TokA
    /\ format = <<"8", "5", ".", "0", "8">>

----------------------------------------------------------------------------
(* Claims about the tokens of the template (checked under Spec) *)

Ended == pc \in {"exit_ok", "exit_err", "panic"}

\* the prefix main prints before the format
FramePrefix == IF args.once THEN <<>> ELSE CLEAR_SEQ

\* the "{name}" substrings of s, as <<first, last>> positions
TokenSpans(s) ==
    {sp \in (1..Len(s)) \X (1..Len(s)) :
        /\ sp[1] < sp[2]
        /\ s[sp[1]] = "{" /\ s[sp[2]] = "}"
        /\ \A k \in (sp[1] + 1)..(sp[2] - 1) : s[k] \notin {"{", "}"}}

\* the names main gives a widget: the configured sensors, time and cpu_usage
KnownNames == {ConfigSensors[i].name : i \in DOMAIN ConfigSensors} \cup {S_time, S_cpu_usage}

UnknownSpans(s) == {sp \in TokenSpans(s) : SubSeq(s, sp[1] + 1, sp[2] - 1) \notin KnownNames}

\* t stands in s from position i on
TextAt(s, i, t) == i + Len(t) - 1 <= Len(s) /\ SubSeq(s, i, i + Len(t) - 1) = t

\* where the text at position i of the template stands in the printed frame
FramePos(i) == Len(FramePrefix) + Len(Expand(SubSeq(Template, 1, i - 1), tickLog.values))

\* the errors of the start of main: the poll rate, the unimplemented modes, the
\* first snapshot
StartErrors == {"Poll rate must be at least 1000ms", "not yet implemented", "sensors"}

\* C11: in templated mode every {name} of the template whose name is neither a
\* configured sensor nor a token main reserves (time, cpu_usage) stands unchanged
\* in every printed frame, between the same neighbours as in the template, and
\* causes no error: a template whose widgets cannot fail ends only on a failed
\* snapshot fetch.
C11_UnknownTokensVerbatim ==
    Templated =>
        /\ FramePrinted =>
              \A sp \in UnknownSpans(Template) :
                  TextAt(lastFrame, FramePos(sp[1]) + 1, SubSeq(Template, sp[1], sp[2]))
        /\ (err # "" /\ \A var \in DOMAIN widgets : widgets[var].kind \in {"time", "dummy"})
              => err \in StartErrors

\* the second frame of "{time} {z}": the time, then {z} as written
C11_Witness ==
    /\ Templated /\ FramePrinted
    /\ tick = 2
    /\ Template = TokTime \o <<" ">> \o format_var(<<"z">>)
    /\ TextAt(lastFrame, Len(CLEAR_SEQ) + 9, <<" ", "{", "z", "}", "\n">>)

S_timestamp == <<"t", "i", "m", "e", "s", "t", "a", "m", "p">>
TokTimestamp == format_var(S_timestamp)

\* HH:MM:SS
IsClock(s) ==
    /\ Len(s) = 8
    /\ \A i \in {1, 2, 4, 5, 7, 8} : IsDigit(s[i])
    /\ s[3] = ":" /\ s[6] = ":"

\* C12 as stated: whenever the template contains {timestamp}, no printed frame
\* holds the literal text {timestamp}.
C12_TimestampReplaced ==
    (Templated /\ FramePrinted /\ Contains(Template, TokTimestamp))
        => ~Contains(lastFrame, TokTimestamp)

\* C12 amended: the reserved token is {time}: whenever the template contains
\* {time}, every printed frame has each occurrence replaced by the local time of
\* that tick in HH:MM:SS form, and the literal text {time} is not in the output.
C12_TimeReplaced ==
    (Templated /\ FramePrinted /\ Contains(Template, TokTime))
        => /\ TokTime \in DOMAIN tickLog.values
           /\ IsClock(tickLog.values[TokTime])
           /\ tickLog.values[TokTime] \in Times
           /\ \A i \in 1..Len(Template) :
                 TextAt(Template, i, TokTime)
                     => TextAt(lastFrame, FramePos(i) + 1, tickLog.values[TokTime])
           /\ ~Contains(lastFrame, TokTime)

\* the one frame of "{time} {z}" in once mode
C12_Witness ==
    /\ Templated /\ args.once /\ pc = "exit_ok"
    /\ Template = TokTime \o <<" ">> \o format_var(<<"z">>)
    /\ lastFrame = <<"1", "2", ":", "0", "0", ":", "0", "1", " ", "{", "z", "}", "\n">>

----------------------------------------------------------------------------
(* Claims about the two modes of main (checked under Spec) *)

\* C13: in once mode the program fetches the snapshot once, prints exactly one
\* frame, without the clear-screen prefix, and ends successfully without sleeping
\* or entering the loop (a failed fetch or resolution ends it with the error and no
\* frame); in that frame every {cpu_usage} is printed as ??, and the CPU counters
\* are never read.
C13_OnceOneFrame ==
    (Templated /\ args.once) =>
        /\ pc \in {"once", "exit_ok", "exit_err"}
        /\ slept = 0 /\ tick = 0
        /\ fetches <= 1
        /\ frames = (IF pc = "exit_ok" THEN 1 ELSE 0)
        /\ pc \in {"once", "exit_ok"} => (fetches = 1 /\ err = "")
        /\ pc = "exit_ok" =>
              /\ lastFrame = format \o <<"\n">>
              /\ format = Expand(Template, tickLog.values)
              /\ \A i \in 1..Len(Template) :
                    TextAt(Template, i, TokCpu)
                        => TextAt(lastFrame, FramePos(i) + 1, <<"?", "?">>)
              /\ ~Contains(lastFrame, TokCpu)
        /\ cpuLog = <<>> /\ cpu = CpuNew /\ kernel = KernelStart

\* the one frame of "{cpu_usage} {cpu_usage}" in once mode
C13_Witness ==
    /\ Templated /\ args.once /\ pc = "exit_ok"
    /\ Template = TokCpu \o <<" ">> \o TokCpu
    /\ lastFrame = <<"?", "?", " ", "?", "?", "\n">>
    /\ frames = 1

Repeating == Templated /\ ~args.once

\* the last update_format stopped at a value() that failed
RenderFailed == \E i \in DOMAIN tickLog.calls : tickLog.calls[i] \notin DOMAIN tickLog.values

\* C14: in repeating mode, when resolving a referenced token fails during tick k,
\* or the snapshot fetch or a widget update fails, the loop ends with that error:
\* the failed tick prints no frame (the partly substituted format is never
\* printed), no later frame is printed, and the process ends with the error
\* instead of going on to the next tick.
C14_ErrorEndsLoop ==
    /\ [](Repeating =>
            /\ (err # "") <=> (pc \in {"exit_err", "panic"})
            /\ pc # "exit_ok"
            /\ frames = tick - (IF RenderFailed THEN 1 ELSE 0)
            /\ RenderFailed => Ended
            /\ frames >= 1 => \A var \in DOMAIN widgets : ~Contains(lastFrame, var))
    /\ [][(Repeating /\ pc' \in {"exit_err", "panic"})
            => (frames' = frames /\ lastFrame' = lastFrame /\ err' # "")]_vars
    /\ [][Ended => UNCHANGED <<frames, lastFrame, pc, err>>]_vars

\* the second tick of "{a}{b}{a}" ended on the read of a's file, after {b} had been
\* substituted: one frame was printed, that of the first tick
C14_Witness ==
    /\ Repeating /\ pc = "exit_err" /\ err = "io"
    /\ tick = 2 /\ frames = 1
    /\ Template = TokA \o TokB \o TokA
    /\ Contains(format, TokA) /\ ~Contains(format, TokB)

\* no template, or the listing forced
ListingMode == args.no_format \/ ~config.format.some

\* line starts with the sensor's prefix and ends with its suffix, a value between
IsSensorLine(line, sensor) ==
    /\ Len(line) > Len(Sensor_prefix(sensor)) + Len(Sensor_suffix(sensor))
    /\ TextAt(line, 1, Sensor_prefix(sensor))
    /\ TextAt(line, Len(line) - Len(Sensor_suffix(sensor)) + 1, Sensor_suffix(sensor))

\* C15: when no template is configured, or the listing is forced, the program
\* prints a frame of exactly one line per configured sensor, in the order of the
\* configuration, each "<label-or-name>: <formatted-value> <unit>".
C15_ListingPrinted ==
    (ListingMode /\ fetches >= 1)
        => /\ pc # "panic"
           /\ Ended => frames >= 1
           /\ frames >= 1 =>
                 LET lines == Split(TrimEnd(lastFrame), "\n")
                 IN /\ Len(lines) = Len(config.sensors)
                    /\ \A i \in DOMAIN config.sensors :
                          i <= Len(lines) /\ IsSensorLine(lines[i], config.sensors[i])

----------------------------------------------------------------------------
(* Claims about Sensor::get_value and format_value (checked under SpecMap) *)

GetValueDone == hCall.op = "get_value" /\ hRet # NoRet

\* the range map of the sensor, if any, applied to a number read
Mapped(sensor, number) ==
    IF number.kind # "ok" \/ ~sensor.map.some THEN number
    ELSE LET m == SensorMap_map(sensor.map.v, number.val)
         IN IF m.panic THEN Panic("clamp: min > max") ELSE Ok(m.val)

\* what the file at the sensor's path gives
FileOutcome ==
    Mapped(hCall.sensor,
           IF hCall.fileRead.some THEN ParseF32(Trim(hCall.fileRead.v)) ELSE Err("io"))

\* what the snapshot gives under the sensor's path
SnapOutcome ==
    LET found == get_by_path(hCall.sensors, hCall.sensor.path)
    IN Mapped(hCall.sensor,
              IF found.some THEN ParseF32(JsonToString(found.v)) ELSE Err("lookup"))

RECURSIVE ValueAt(_, _)
\* the member of object that path names, read from its last key back
ValueAt(object, path) ==
    IF path = <<>> THEN object
    ELSE ValueAt(object, SubSeq(path, 1, Len(path) - 1)).kv[path[Len(path)]]

RECURSIVE PresentUpTo(_, _, _)
\* the first i segments of path are keys of nested objects
PresentUpTo(object, path, i) ==
    \/ i = 0
    \/ /\ PresentUpTo(object, path, i - 1)
       /\ LET v == ValueAt(object, SubSeq(path, 1, i - 1))
          IN v.t = "obj" /\ path[i] \in DOMAIN v.kv

\* C17: for a snapshot-backed sensor the walk makes one key lookup per segment of
\* the path, in order: with every segment present the result is the number at the
\* leaf reached (a/b/c in {"a":{"b":{"c":42}}} gives 42.0), a non-numeric leaf is
\* a parse error, and a missing segment is a lookup error (its message gives the
\* sensor's whole path, config.rs:122); the call leaves the snapshot as it was.
C17_WalkBySegments ==
    /\ [](( /\ GetValueDone
            /\ hCall.sensor.source = "sensors"
            /\ ~hCall.sensor.map.some) =>
            LET doc == hCall.sensors
                path == hCall.sensor.path
            IN IF ~PresentUpTo(doc, path, Len(path)) THEN hRet = Err("lookup")
               ELSE IF ValueAt(doc, path).t # "num" THEN hRet = Err("parse")
               ELSE hRet = ParseF32(ValueAt(doc, path).text) /\ hRet.kind = "ok")
    /\ [][hCall.op = "get_value" => hCall'.sensors = hCall.sensors]_vars

\* a/b/c in {"a":{"b":{"c":42}}} gave 42.0
C17_Witness ==
    /\ GetValueDone
    /\ hCall.sensors = NestedDoc(JNum(<<"4", "2">>))
    /\ hCall.sensor.path = <<<<"a">>, <<"b">>, <<"c">>>>
    /\ hRet = Ok(FInt(42))

FormatDone == hCall.op = "format_value" /\ hRet # NoRet

\* s is an optional '-', digits and, for n > 0, a '.' and exactly n digits
HasPlaces(s, n) ==
    LET body == IF s # <<>> /\ s[1] = "-" THEN Tail(s) ELSE s
        dot == IndexOf(body, ".")
    IN IF n = 0 THEN AllDigits(body)
       ELSE /\ dot > 1
            /\ AllDigits(SubSeq(body, 1, dot - 1))
            /\ Len(body) - dot = n
            /\ AllDigits(SubSeq(body, dot + 1, Len(body)))

\* the number p, of at most n decimals, is within half a unit of the n-th place of v
WithinHalfUnit(p, v, n) ==
    /\ Pow10(n) % p.d = 0
    /\ 2 * Abs(p.n * (Pow10(n) \div p.d) * v.d - v.n * Pow10(n)) <= v.d

\* C18: format_value with round = n prints the value rounded to exactly n decimal
\* places (no decimal point for n = 0), and with round absent the shortest decimal
\* that reads back as the value; formatting is idempotent: the printed text,
\* parsed and formatted again with the same round, is the same text.
C18_FormatRounds ==
    FormatDone =>
        LET text == hRet.val
            value == hCall.value
            round == hCall.sensor.round
            back == ParseF32(text)
        IN /\ back.kind = "ok"
           /\ Sensor_format_value(hCall.sensor, back.val) = text
           /\ ~IsFin(value) => back.val = value
           /\ (IsFin(value) /\ round.some) =>
                 /\ HasPlaces(text, round.v)
                 /\ WithinHalfUnit(back.val, value, round.v)
                 /\ (text[1] = "-") <=> (value.n < 0 \/ value = FNegZero)
           /\ (IsFin(value) /\ ~round.some) =>
                 /\ back.val = value
                 /\ Contains(text, <<".">>) => text[Len(text)] # "0"

\* 7.466 with round 2 is printed 7.47
C18_Witness ==
    /\ FormatDone
    /\ hCall.value = Rat(7466, 1000)
    /\ hCall.sensor.round = Some(2)
    /\ hRet = Ok(<<"7", ".", "4", "7">>)

\* the widgets of the sensors read from the snapshot
SnapshotVars ==
    {var \in DOMAIN widgets :
        widgets[var].kind = "sensor" /\ widgets[var].sensor.source = "sensors"}

\* C19: in repeating mode every frame k is the configured template, not the text
\* of the frame before, with the values of tick k substituted, and the snapshot it
\* is rendered from is the k-th one fetched: the one of the start for k = 1, else
\* the one fetched after frame k-1 was printed.  The snapshot changes only by a
\* fetch, never while a frame is rendered from it.
C19_FrameFromTemplateAndFreshSnapshot ==
    /\ [](Repeating =>
            /\ pc = "loop" => (format = Template /\ fetches = tick + 1)
            /\ pc \in {"sleep_rest", "update", "sleep_min", "reset"} => fetches = tick
            /\ pc = "sleep_rest" =>
                  /\ lastFrame = CLEAR_SEQ \o Expand(Template, tickLog.values) \o <<"\n">>
                  /\ \A var \in SnapshotVars :
                        LET v == Sensor_get_value(widgets[var].sensor, sensors_data, None)
                        IN /\ v.kind = "ok"
                           /\ tickLog.values[var]
                                 = Sensor_format_value(widgets[var].sensor, v.val))
    /\ [][sensors_data' # sensors_data
            => (pc \in {"start", "reset"} /\ fetches' = fetches + 1)]_vars

\* the second frame of "{b}", from a second snapshot that reads 2.0
C19_Witness ==
    /\ Repeating /\ pc = "sleep_rest"
    /\ tick = 2 /\ fetches = 2
    /\ Template = TokB
    /\ sensors_data = Snapshot(<<"2", ".", "0">>)
    /\ lastFrame = CLEAR_SEQ \o <<"5", ".", "0", "\n">>

CpuRepeating == Repeating /\ Contains(Template, TokCpu)

\* the tracker as a refresh() that read the counters k leaves it
BaselineOf(k) == [cpu EXCEPT !.last_idle = k[4], !.last_sum = SumSeq(k)]

\* C20: in repeating mode with {cpu_usage} in the template the tracker's operations
\* alternate get(), refresh(), get(), ...: one get() per frame rendered and one
\* refresh() per update step; so the baseline of every get() after the first is
\* the sample read by the refresh() of the tick before, and the value it prints
\* is computed from the counters' growth since that refresh().
C20_GetRefreshAlternate ==
    /\ [](CpuRepeating =>
            /\ \A i \in DOMAIN cpuLog :
                  cpuLog[i] = (IF i % 2 = 1 THEN "get" ELSE "refresh")
            /\ pc \in {"loop", "sleep_min", "reset"} => Len(cpuLog) = 2 * tick
            /\ pc \in {"sleep_rest", "update"} => Len(cpuLog) = 2 * tick - 1
            /\ (pc \in {"loop", "sleep_min", "reset"} /\ tick >= 1) => cpu = BaselineOf(kernel))
    /\ [][(CpuRepeating /\ pc = "loop" /\ tick >= 1 /\ pc' = "sleep_rest")
            => tickLog'.values[TokCpu]
                 = FormatFixed(CPUUsageWidget_get(BaselineOf(kernel),
                                                  Some(StatLine(kernel')),
                                                  cpu.cpu_count).ret.val, 1)]_vars

\* the second frame of "{cpu_usage} {cpu_usage}": since the refresh() of the first
\* tick one tick of user time has passed, on one core
C20_Witness ==
    /\ CpuRepeating /\ pc = "sleep_rest"
    /\ tick = 2
    /\ cpuLog = <<"get", "refresh", "get">>
    /\ Template = TokCpu \o <<" ">> \o TokCpu
    /\ cpu.cpu_count = 1
    /\ lastFrame = CLEAR_SEQ \o <<"6", ".", "0", " ", "6", ".", "0", "\n">>

----------------------------------------------------------------------------
(* Claims about the poll rate (checked under Spec) *)

\* C21: a poll_rate below 1000 ms is rejected with an error before any snapshot is
\* fetched or any frame printed, whatever the arguments are; for an accepted
\* poll_rate (1000..65535) the first sleep is poll_rate - 1000 without underflow
\* of the u16 subtraction, and the two sleeps of a tick add up to poll_rate.
C21_PollRateCheckedAndSlept ==
    /\ (pc # "start" /\ config.poll_rate < MINIMAL_POLL_RATE) =>
          /\ pc = "exit_err"
          /\ err = "Poll rate must be at least 1000ms"
          /\ fetches = 0 /\ sensors_data = JNull
          /\ frames = 0 /\ lastFrame = <<>>
    /\ (pc # "start" /\ config.poll_rate >= MINIMAL_POLL_RATE) =>
          /\ err # "Poll rate must be at least 1000ms"
          /\ pc = "sleep_rest" => slept = 0
          /\ pc \in {"update", "sleep_min"} =>
                (slept = config.poll_rate - MINIMAL_POLL_RATE /\ slept >= 0)
          /\ pc \in {"reset", "loop"} /\ tick >= 1 => slept = config.poll_rate

\* the second tick at the largest poll rate has slept 64535 + 1000 ms
C21_Witness ==
    /\ pc = "reset"
    /\ tick = 2
    /\ config.poll_rate = 65535
    /\ slept = 65535

====
